---- MODULE Spec2Model ----
(***************************************************************************)
(* State-machine model of the photo-upscaler web client: the push channel  *)
(* of app.js (connectWebSocket and the socket handlers), the window event  *)
(* dispatches of handleWSEvent, and the two poll loops (pollComparison in  *)
(* app.js, pollJob in ProgressTracker.js).                                 *)
(*                                                                         *)
(* The browser is single threaded: every action below is one task of the   *)
(* event loop (a handler, a timer callback, or the continuation of an      *)
(* await), run to completion.                                              *)
(***************************************************************************)
EXTENDS Integers, Sequences, FiniteSets, TLC

\* ------------------------------------------------------------------ bounds
MaxSockets == 3        \* sockets the page may create in one run
MaxPings == 2          \* keepalive probes counted before the counter saturates
MaxModels == 2         \* model ids the user can select for a comparison
MaxSnap == 2           \* longest result list of one poll snapshot
MaxHist == 3           \* fetches of one loop whose delay and outcome are recorded
MaxCount == 2          \* dispatch counters saturate here
MaxComparisons == 2    \* startComparison calls that reach the server
MaxJobs == 2           \* startBatch calls that reach the server
MaxUnits == 3          \* largest done / total count a progress frame carries
MaxLog == 2            \* frames whose arrival and dispatches are logged
MaxUpscales == 1       \* startUpscale calls awaiting their POST at one time

\* ------------------------------------------------- constants of the program
ReconnectDelay == 3000     \* app.js:92
CompInitialDelay == 2000   \* app.js:233
CompSteadyDelay == 1500    \* app.js:223
CompFailDelay == 2000      \* app.js:229
JobInitialDelay == 1000    \* ProgressTracker.js:164
JobSteadyDelay == 2000     \* ProgressTracker.js:159
JobFailDelay == 3000       \* ProgressTracker.js:161

SockIds == 1..MaxSockets
ModelIds == 1..MaxModels
CompIds == 1..MaxComparisons
JobIds == 1..MaxJobs
ToastTypes == {"success", "error"}

Sat(n) == IF n < MaxCount THEN n + 1 ELSE MaxCount

\* removes the i-th element of a sequence (a timer that fires leaves the queue)
RemoveAt(s, i) == [k \in 1..(Len(s) - 1) |-> IF k < i THEN s[k] ELSE s[k + 1]]

VARIABLES
    \* ---- push channel (app.js) ----
    appInit,          \* init() has run
    ws,               \* this.ws: 0 is null, else the id of the last socket created
    sock,             \* readyState of every socket: NONE (not created) .. CLOSED
    nSock,            \* sockets created so far
    pingInterval,     \* this._pingInterval: 0 is undefined, else an interval handle
    activeIntervals,  \* interval handles that are still running
    wsReconnectTimer, \* this.wsReconnectTimer: 0 is null, else a timeout handle
    reconnectTimers,  \* pending reconnect timeouts, each with its delay
    pingsSent,        \* keepalive probes sent (saturating)
    tornDown          \* the component has been removed from the page

VARIABLES
    \* ---- window events counted by kind (saturating) ----
    modelDone,        \* 'comparison-model-done' dispatches, per model id
    toasts,           \* 'toast' dispatches, per toast type

    \* ---- comparison (app.js, ComparisonView.js) ----
    compareModels,    \* this.compareModels, the models ticked by the user
    isComparing,      \* this.isComparing
    comparisonId,     \* this.comparisonId: 0 is null
    nComp,            \* startComparison calls that reached the POST
    cPhase,           \* per call: none, posting, rejected, polling, complete
    cSent,            \* per call: the model ids sent in the POST
    cExpected,        \* per call: expectedCount of its pollComparison
    cSeen,            \* per call: the seen set of its pollComparison
    cTimers,          \* per call: pending setTimeout(poll, d), as delays
    cInflight,        \* per call: fetches issued and not yet settled
    cDelays,          \* per call: delay of the timer before each fetch (first MaxHist)
    cOutcomes,        \* per call: outcome of each fetch (first MaxHist)
    cLast,            \* per call: outcome of the latest fetch
    cReported,        \* per call: model ids some snapshot has reported so far
    cForwarded,       \* per call: 'comparison-result' dispatches, per model id
    cComplete,        \* per call: times the loop marked the comparison complete
    panels            \* comparisonView.panels

VARIABLES
    \* ---- batch panel (ProgressTracker.js) ----
    batchRunning,     \* this.batchRunning
    batchStatus,      \* this.batchStatus
    batchJobId,       \* this.batchJobId: 0 is null
    nJobs,            \* startBatch calls that reached the POST
    jPhase,           \* per call: none, posting, rejected, polling, reported
    jTimers,          \* per call: pending setTimeout(poll, d), as delays
    jInflight,        \* per call: fetches issued and not yet settled
    jDelays,          \* per call: delay of the timer before each fetch (first MaxHist)
    jOutcomes,        \* per call: outcome of each fetch (first MaxHist)
    jLast,            \* per call: outcome of the latest fetch
    jTerminal,        \* per call: some snapshot had status completed or failed
    jReports          \* per call: terminal snapshots the loop has reported

VARIABLES
    observe,          \* whether the fetch histories and the frame log are recorded
    counting          \* whether the dispatches of handleWSEvent are counted

VARIABLES
    \* ---- progress tracker (ProgressTracker.js) ----
    trackerMounted,   \* init() has added the 'ws-event' listener (destroy removes it)
    progressPercent,  \* this.progressPercent
    progressLabel,    \* this.progressLabel, as a record of its parts
    startTime,        \* this.startTime in ms: -1 is null
    now,              \* Date.now() in ms
    lastEvent,        \* the latest frame the tracker handled, with its time
    lastReset         \* the latest assignment of startTime: by whom, and when

VARIABLES
    \* ---- frames and window events in order (recorded when observe) ----
    arrived,          \* well-formed frames, in the order onmessage got them
    published,        \* details of the 'ws-event' dispatches, in order
    dispatched,       \* every dispatch of handleWSEvent: <<frame number, event>>
    malformed         \* some frame was rejected by JSON.parse

VARIABLES
    \* ---- single upscale (app.js) ----
    isProcessing,     \* this.isProcessing
    uPosting          \* startUpscale calls awaiting their POST

chanVars == <<appInit, ws, sock, nSock, pingInterval, activeIntervals,
              wsReconnectTimer, reconnectTimers, pingsSent, tornDown>>

busVars == <<modelDone, toasts>>

compVars == <<compareModels, isComparing, comparisonId, nComp, cPhase, cSent,
              cExpected, cSeen, cTimers, cInflight, cDelays, cOutcomes, cLast,
              cReported, cForwarded, cComplete, panels>>

batchVars == <<batchRunning, batchStatus, batchJobId, nJobs, jPhase, jTimers,
               jInflight, jDelays, jOutcomes, jLast, jTerminal, jReports>>

trackVars == <<trackerMounted, progressPercent, progressLabel, startTime, now,
               lastEvent, lastReset>>

logVars == <<arrived, published, dispatched, malformed>>

upVars == <<isProcessing, uPosting>>

\* what the push channel and the two poll loops never write
restVars == <<observe, counting, trackVars, logVars, upVars>>

vars == <<chanVars, busVars, compVars, batchVars, restVars>>

Live(s) == sock[s] \in {"CONNECTING", "OPEN"}
LiveSockets == {s \in SockIds : Live(s)}

InitChannel ==
    /\ appInit = FALSE
    /\ ws = 0
    /\ sock = [s \in SockIds |-> "NONE"]
    /\ nSock = 0
    /\ pingInterval = 0
    /\ activeIntervals = {}
    /\ wsReconnectTimer = 0
    /\ reconnectTimers = <<>>
    /\ pingsSent = 0
    /\ tornDown = FALSE

InitBus ==
    /\ modelDone = [m \in ModelIds |-> 0]
    /\ toasts = [t \in ToastTypes |-> 0]

InitCompare ==
    /\ compareModels = {}
    /\ isComparing = FALSE
    /\ comparisonId = 0
    /\ nComp = 0
    /\ cPhase = [c \in CompIds |-> "none"]
    /\ cSent = [c \in CompIds |-> {}]
    /\ cExpected = [c \in CompIds |-> 0]
    /\ cSeen = [c \in CompIds |-> {}]
    /\ cTimers = [c \in CompIds |-> <<>>]
    /\ cInflight = [c \in CompIds |-> 0]
    /\ cDelays = [c \in CompIds |-> <<>>]
    /\ cOutcomes = [c \in CompIds |-> <<>>]
    /\ cLast = [c \in CompIds |-> "none"]
    /\ cReported = [c \in CompIds |-> {}]
    /\ cForwarded = [c \in CompIds |-> [m \in ModelIds |-> 0]]
    /\ cComplete = [c \in CompIds |-> 0]
    /\ panels = <<>>

InitBatch ==
    /\ batchRunning = FALSE
    /\ batchStatus = [kind |-> "empty", text |-> ""]
    /\ batchJobId = 0
    /\ nJobs = 0
    /\ jPhase = [j \in JobIds |-> "none"]
    /\ jTimers = [j \in JobIds |-> <<>>]
    /\ jInflight = [j \in JobIds |-> 0]
    /\ jDelays = [j \in JobIds |-> <<>>]
    /\ jOutcomes = [j \in JobIds |-> <<>>]
    /\ jLast = [j \in JobIds |-> "none"]
    /\ jTerminal = [j \in JobIds |-> FALSE]
    /\ jReports = [j \in JobIds |-> 0]

\* connectWebSocket(): new WebSocket(url) either throws (caught and logged,
\* nothing assigned) or yields a socket in CONNECTING that becomes this.ws.
\* There is no test of the current this.ws before the constructor call.
connectWebSocket(throws) ==
    IF throws
    THEN UNCHANGED <<ws, sock, nSock>>
    ELSE /\ nSock < MaxSockets
         /\ nSock' = nSock + 1
         /\ sock' = [sock EXCEPT ![nSock + 1] = "CONNECTING"]
         /\ ws' = nSock + 1

\* init(): after the model refresh, connects once.
AppInit ==
    /\ ~appInit
    /\ appInit' = TRUE
    /\ \E throws \in BOOLEAN : connectWebSocket(throws)
    /\ UNCHANGED <<pingInterval, activeIntervals, wsReconnectTimer,
                   reconnectTimers, pingsSent, tornDown>>
    /\ UNCHANGED <<busVars, compVars, batchVars, restVars>>

\* the setTimeout callback of onclose: () => this.connectWebSocket()
ReconnectFire ==
    /\ \E i \in 1..Len(reconnectTimers) :
          reconnectTimers' = RemoveAt(reconnectTimers, i)
    /\ \E throws \in BOOLEAN : connectWebSocket(throws)
    /\ UNCHANGED <<appInit, pingInterval, activeIntervals, wsReconnectTimer,
                   pingsSent, tornDown>>
    /\ UNCHANGED <<busVars, compVars, batchVars, restVars>>

\* ws.onopen: starts the keepalive interval and stores its handle.
SocketOpen(s) ==
    /\ sock[s] = "CONNECTING"
    /\ sock' = [sock EXCEPT ![s] = "OPEN"]
    /\ pingInterval' = s
    /\ activeIntervals' = activeIntervals \cup {s}
    /\ UNCHANGED <<appInit, ws, nSock, wsReconnectTimer, reconnectTimers,
                   pingsSent, tornDown>>
    /\ UNCHANGED <<busVars, compVars, batchVars, restVars>>

\* the interval callback sending its probe whatever the readyState is
PingTick_Unchecked(i) ==
    /\ i \in activeIntervals
    /\ pingsSent' = IF ws # 0 /\ pingsSent < MaxPings
                     THEN pingsSent + 1
                     ELSE pingsSent
    /\ UNCHANGED <<appInit, ws, sock, nSock, pingInterval, activeIntervals,
                   wsReconnectTimer, reconnectTimers, tornDown>>
    /\ UNCHANGED <<busVars, compVars, batchVars, restVars>>

\* the setInterval callback of onopen: sends 'ping' on this.ws when it is OPEN.
PingTick(i) ==
    /\ i \in activeIntervals
    /\ pingsSent' = IF ws # 0 /\ sock[ws] = "OPEN" /\ pingsSent < MaxPings
                     THEN pingsSent + 1
                     ELSE pingsSent
    /\ UNCHANGED <<appInit, ws, sock, nSock, pingInterval, activeIntervals,
                   wsReconnectTimer, reconnectTimers, tornDown>>
    /\ UNCHANGED <<busVars, compVars, batchVars, restVars>>

\* ws.close() on socket t: starts the closing handshake unless already closing.
CloseCall(sk, t) ==
    IF t # 0 /\ sk[t] \in {"CONNECTING", "OPEN"}
    THEN [sk EXCEPT ![t] = "CLOSING"]
    ELSE sk

\* onerror raising an error toast as well
SocketError_Toasts(s) ==
    /\ Live(s)
    /\ sock' = CloseCall([sock EXCEPT ![s] = "CLOSING"], ws)
    /\ toasts' = [toasts EXCEPT !["error"] = Sat(@)]
    /\ UNCHANGED <<appInit, ws, nSock, pingInterval, activeIntervals,
                   wsReconnectTimer, reconnectTimers, pingsSent, tornDown>>
    /\ UNCHANGED <<modelDone, compVars, batchVars, restVars>>

\* ws.onerror of socket s: the connection of s has failed (its close event
\* follows); the handler closes this.ws, whichever socket that is.
SocketError(s) ==
    /\ Live(s)
    /\ sock' = CloseCall([sock EXCEPT ![s] = "CLOSING"], ws)
    /\ UNCHANGED <<appInit, ws, nSock, pingInterval, activeIntervals,
                   wsReconnectTimer, reconnectTimers, pingsSent, tornDown>>
    /\ UNCHANGED <<busVars, compVars, batchVars, restVars>>

\* onclose without its clearInterval
SocketClose_NoClear(s) ==
    /\ sock[s] \in {"OPEN", "CLOSING"}
    /\ sock' = [sock EXCEPT ![s] = "CLOSED"]
    /\ reconnectTimers' = Append(reconnectTimers, ReconnectDelay)
    /\ wsReconnectTimer' = s
    /\ UNCHANGED <<appInit, ws, nSock, pingInterval, activeIntervals,
                   pingsSent, tornDown>>
    /\ UNCHANGED <<busVars, compVars, batchVars, restVars>>

\* ws.onclose of socket s (after an error, after close(), or a server close):
\* clears the interval this._pingInterval names and schedules one reconnect.
SocketClose(s) ==
    /\ sock[s] \in {"OPEN", "CLOSING"}
    /\ sock' = [sock EXCEPT ![s] = "CLOSED"]
    /\ activeIntervals' = activeIntervals \ {pingInterval}
    /\ reconnectTimers' = Append(reconnectTimers, ReconnectDelay)
    /\ wsReconnectTimer' = s
    /\ UNCHANGED <<appInit, ws, nSock, pingInterval, pingsSent, tornDown>>
    /\ UNCHANGED <<busVars, compVars, batchVars, restVars>>

\* The component is removed from the page.  app() defines no destroy(): no
\* code of the program runs, so no timer is cleared and no socket is closed.
Teardown ==
    /\ appInit /\ ~tornDown
    /\ tornDown' = TRUE
    /\ UNCHANGED <<appInit, ws, sock, nSock, pingInterval, activeIntervals,
                   wsReconnectTimer, reconnectTimers, pingsSent>>
    /\ UNCHANGED <<busVars, compVars, batchVars, restVars>>

\* A call of the public method connectWebSocket() by any caller other than
\* init() and the reconnect timer (the method takes no argument and has no
\* guard, so the call runs the same body).
connectWebSocketCall ==
    /\ appInit
    /\ \E throws \in BOOLEAN : connectWebSocket(throws)
    /\ UNCHANGED <<appInit, pingInterval, activeIntervals, wsReconnectTimer,
                   reconnectTimers, pingsSent, tornDown>>
    /\ UNCHANGED <<busVars, compVars, batchVars, restVars>>

\* ------------------------------------- progress tracker (ProgressTracker.js)

\* the readings of Date.now() a run can see, in ms
Instants == {0, 2000, 49000}

\* done / total counts of a progress frame; 0 also stands for a missing field,
\* which the code treats alike (x || 0, x || 1)
Units == 0..MaxUnits

\* <<pass_num, total_passes>> of a tile_progress frame: missing, or pass 2 of 2
Passes == {<<0, 0>>, <<2, 2>>}

FileNames == {"", "a.png"}

\* a frame without any of the fields progressTracker reads
NoFields ==
    [tiles_done |-> 0, tiles_total |-> 0, pass_num |-> 0, total_passes |-> 0,
     completed |-> 0, total |-> 0, downloaded |-> 0, current_file |-> ""]

\* the fields of a frame of the given type that progressTracker reads, next
\* to type and model_id
ProgressFields(type) ==
    IF type = "tile_progress"
    THEN {[NoFields EXCEPT !.tiles_done = d, !.tiles_total = t,
                           !.pass_num = ps[1], !.total_passes = ps[2]] :
             d \in Units, t \in Units, ps \in Passes}
    ELSE IF type = "batch_progress"
    THEN {[NoFields EXCEPT !.completed = d, !.total = t, !.current_file = f] :
             d \in Units, t \in Units, f \in FileNames}
    ELSE IF type = "download_progress"
    THEN {[NoFields EXCEPT !.downloaded = d, !.total = t] :
             d \in Units, t \in Units}
    ELSE {NoFields}

\* x || y for numbers
OrElse(x, y) == IF x = 0 THEN y ELSE x

\* Math.round(num / den) for num >= 0, den > 0: halves round up
Round(num, den) == (2 * num + den) \div (2 * den)

\* Math.round((done / total) * 100) cut down to a whole number
Percent_Truncated(done, total) == (100 * done) \div total

\* Math.round((done / total) * 100)
Percent(done, total) == Round(100 * done, total)

\* the least integer that is no less than num / den, den > 0
Ceil(num, den) == -((-num) \div den)

\* The inputs <<done, total, elapsed ms>>, among those with counts up to 5 and
\* the elapsed times Instants allows, for which (total - done) / (done / elapsed)
\* in IEEE-754 double arithmetic lies just above the whole number that
\* (total - done) * elapsed / done is, e.g. 1 / (1 / 49) = 49.00000000000001.
RoundedAbove == {<<1, 2, 49000>>, <<1, 3, 49000>>, <<1, 5, 49000>>, <<2, 4, 49000>>}

\* Math.ceil(remaining) of the ETA calculation: elapsed = ms / 1000,
\* rate = done / elapsed, remaining = (total - done) / rate
Remaining(done, total, elapsedMs) ==
    Ceil((total - done) * elapsedMs, done * 1000)
        + (IF <<done, total, elapsedMs>> \in RoundedAbove THEN 1 ELSE 0)

\* (bytes / 1024 / 1024).toFixed(1), in tenths of a MB
ToFixed1(bytes) == Round(10 * bytes, 1024 * 1024)

\* a progressLabel: kind is its fixed text, the other fields what it embeds
Label(kind) ==
    [kind |-> kind, x |-> 0, y |-> 0, pass |-> <<>>, eta |-> <<>>,
     model |-> 0, file |-> ""]

InitTracker ==
    /\ trackerMounted = FALSE
    /\ progressPercent = 0
    /\ progressLabel = Label("Waiting...")
    /\ startTime = -1
    /\ now = 0
    /\ lastEvent = [type |-> "none", at |-> 0, tiles_done |-> 0, tiles_total |-> 0,
                    model |-> 0]
    /\ lastReset = [by |-> "none", at |-> 0]

\* time passes
ClockAdvance ==
    /\ \E t \in Instants : t > now /\ now' = t
    /\ UNCHANGED <<trackerMounted, progressPercent, progressLabel, startTime,
                   lastEvent, lastReset>>
    /\ UNCHANGED <<chanVars, busVars, compVars, batchVars, observe, counting, logVars,
                   upVars>>

\* a progressTracker component is created and its init() runs
TrackerInit ==
    /\ ~trackerMounted
    /\ trackerMounted' = TRUE
    /\ progressPercent' = 0
    /\ progressLabel' = Label("Waiting...")
    /\ startTime' = now
    /\ lastEvent' = [type |-> "none", at |-> now, tiles_done |-> 0, tiles_total |-> 0,
                     model |-> 0]
    /\ lastReset' = [by |-> "init", at |-> now]
    /\ UNCHANGED now
    /\ UNCHANGED <<chanVars, busVars, compVars, batchVars, observe, counting, logVars,
                   upVars>>

\* destroy(): the listener is removed
TrackerDestroy ==
    /\ trackerMounted
    /\ trackerMounted' = FALSE
    /\ UNCHANGED <<progressPercent, progressLabel, startTime, now, lastEvent,
                   lastReset>>
    /\ UNCHANGED <<chanVars, busVars, compVars, batchVars, observe, counting, logVars,
                   upVars>>

\* the tile_progress branch with an ETA from 2 s on, not after 2 s
tileProgress_EarlyEta(p, start, t) ==
    LET done == p.tiles_done
        total == OrElse(p.tiles_total, 1)
        passNum == OrElse(p.pass_num, 1)
        totalPasses == OrElse(p.total_passes, 1)
        elapsedMs == t - start
    IN  [percent |-> Percent(done, total),
         label |-> [Label("Tiles") EXCEPT
                       !.x = done, !.y = total,
                       !.pass = IF totalPasses > 1 THEN <<passNum, totalPasses>>
                                ELSE <<>>,
                       !.eta = IF done > 0 /\ elapsedMs >= 2000
                               THEN <<Remaining(done, total, elapsedMs)>>
                               ELSE <<>>],
         startTime |-> start]

\* the tile_progress branch of handleWSEvent
tileProgress(p, start, t) ==
    LET done == p.tiles_done
        total == OrElse(p.tiles_total, 1)
        passNum == OrElse(p.pass_num, 1)
        totalPasses == OrElse(p.total_passes, 1)
        elapsedMs == t - start
    IN  [percent |-> Percent(done, total),
         label |-> [Label("Tiles") EXCEPT
                       !.x = done, !.y = total,
                       !.pass = IF totalPasses > 1 THEN <<passNum, totalPasses>>
                                ELSE <<>>,
                       !.eta = IF done > 0 /\ elapsedMs > 2000
                               THEN <<Remaining(done, total, elapsedMs)>>
                               ELSE <<>>],
         startTime |-> start]

\* model_loading handled without the assignment to startTime
modelLoading_KeepStart(data, start, t) ==
    [percent |-> 0,
     label |-> [Label("Loading model") EXCEPT !.model = data.model_id],
     startTime |-> start]

\* the model_loading branch of handleWSEvent
modelLoading(data, start, t) ==
    [percent |-> 0,
     label |-> [Label("Loading model") EXCEPT !.model = data.model_id],
     startTime |-> t]

\* progressTracker.handleWSEvent(data) at time t, from the state st
\* (percent, label, startTime): the state it leaves
trackerEvent(st, data, p, t) ==
    IF data.type = "tile_progress" THEN tileProgress(p, st.startTime, t)
    ELSE IF data.type = "model_loading" THEN modelLoading(data, st.startTime, t)
    ELSE IF data.type = "model_loaded"
    THEN [st EXCEPT !.label = Label("Model loaded, processing...")]
    ELSE IF data.type = "comparison_model_start"
    THEN [percent |-> 0,
          label |-> [Label("Processing") EXCEPT !.model = data.model_id],
          startTime |-> t]
    ELSE IF data.type = "batch_progress"
    THEN [st EXCEPT
             !.percent = Percent(p.completed, OrElse(p.total, 1)),
             !.label = [Label("Batch") EXCEPT
                           !.x = p.completed, !.y = OrElse(p.total, 1),
                           !.file = p.current_file]]
    ELSE IF data.type = "download_progress"
    THEN [st EXCEPT
             !.percent = IF OrElse(p.total, 1) > 0
                         THEN Percent(p.downloaded, OrElse(p.total, 1)) ELSE 0,
             !.label = [Label("Downloading") EXCEPT
                           !.x = ToFixed1(p.downloaded),
                           !.y = ToFixed1(OrElse(p.total, 1))]]
    ELSE IF data.type = "image_complete"
    THEN [st EXCEPT !.percent = 100, !.label = Label("Complete!")]
    ELSE st

\* the 'ws-event' listener of a mounted tracker runs handleWSEvent(e.detail)
onWsEvent(data, p) ==
    LET out == trackerEvent([percent |-> progressPercent, label |-> progressLabel,
                             startTime |-> startTime], data, p, now)
    IN  /\ progressPercent' = out.percent
        /\ progressLabel' = out.label
        /\ startTime' = out.startTime
        /\ lastEvent' = [type |-> data.type, at |-> now,
                         tiles_done |-> p.tiles_done, tiles_total |-> p.tiles_total,
                         model |-> IF data.type = "model_loading"
                                   THEN data.model_id ELSE 0]
        /\ lastReset' = IF data.type \in {"model_loading", "comparison_model_start"}
                        THEN [by |-> data.type, at |-> now]
                        ELSE lastReset
        /\ UNCHANGED <<trackerMounted, now>>

\* ------------------------------------------------ window events (app.js)
EventTypes == {"tile_progress", "model_loading", "model_loaded",
               "comparison_model_start", "comparison_model_done",
               "batch_progress", "download_progress", "image_complete",
               "image_error"}

\* the frame types whose model_id is read (by handleWSEvent or the tracker)
ModelEvents == {"model_loading", "comparison_model_start", "comparison_model_done"}

\* the fields of a frame that app.js reads; model_id is 0 and success FALSE in
\* the frames of a type for which nothing reads them
Frames ==
    {[type |-> t, model_id |-> m, success |-> ok] :
        t \in ModelEvents, m \in ModelIds, ok \in BOOLEAN}
    \cup {[type |-> t, model_id |-> 0, success |-> FALSE] :
             t \in EventTypes \ ModelEvents}

\* toast(msg, type): one 'toast' window event
toast(t, type) == [t EXCEPT ![type] = Sat(@)]

\* handleWSEvent(data): a successful comparison_model_done is dispatched again
\* as 'comparison-model-done'; image_complete and image_error raise a toast.
handleWSEvent(data) ==
    /\ modelDone' = IF data.type = "comparison_model_done" /\ data.success
                       /\ counting
                    THEN [modelDone EXCEPT ![data.model_id] = Sat(@)]
                    ELSE modelDone
    /\ toasts' = IF data.type = "image_complete" /\ counting
                 THEN toast(toasts, "success")
                 ELSE IF data.type = "image_error" /\ counting
                 THEN toast(toasts, "error")
                 ELSE toasts

\* the 'ws-event' dispatches of handleWSEvent(data) without those of
\* tile_progress frames
wsEvents_Coalesced(data, p) ==
    IF data.type = "tile_progress" THEN <<>> ELSE <<[data |-> data, fields |-> p]>>

\* the 'ws-event' dispatches of handleWSEvent(data): one, with the frame as
\* its detail
wsEvents(data, p) == <<[data |-> data, fields |-> p]>>

\* the window events handleWSEvent(data) dispatches, in order
dispatches(data, p) ==
    [k \in 1..Len(wsEvents(data, p)) |-> "ws-event"]
    \o (IF data.type = "comparison_model_done" /\ data.success
        THEN <<"comparison-model-done">> ELSE <<>>)
    \o (IF data.type \in {"image_complete", "image_error"}
        THEN <<"toast">> ELSE <<>>)

\* the frame and its dispatches are logged (the first MaxLog frames)
logFrame(data, p) ==
    IF observe /\ Len(arrived) < MaxLog
    THEN /\ arrived' = Append(arrived, [data |-> data, fields |-> p])
         /\ published' = published \o wsEvents(data, p)
         /\ dispatched' = dispatched \o
               [k \in 1..Len(dispatches(data, p)) |->
                   <<Len(arrived) + 1, dispatches(data, p)[k]>>]
         /\ UNCHANGED malformed
    ELSE UNCHANGED logVars

\* ws.onmessage of socket s: a frame that JSON.parse rejects is dropped, any
\* other frame goes to handleWSEvent, whose 'ws-event' dispatch runs the
\* listener of the progress tracker when one is mounted.
OnMessage(s) ==
    /\ sock[s] = "OPEN"
    /\ \E wellFormed \in BOOLEAN :
          IF wellFormed
          THEN \E data \in Frames :
                  /\ handleWSEvent(data)
                  /\ IF trackerMounted
                     THEN \E p \in ProgressFields(data.type) :
                             onWsEvent(data, p) /\ logFrame(data, p)
                     ELSE UNCHANGED trackVars /\ logFrame(data, NoFields)
          ELSE /\ UNCHANGED <<busVars, trackVars, arrived, published, dispatched>>
               /\ malformed' = (malformed \/ observe)
    /\ UNCHANGED <<chanVars, compVars, batchVars, observe, counting, upVars>>

\* ----------------------------------------------------- single upscale (app.js)

\* startUpscale() up to its await: returns at once without a file or a model,
\* else sets isProcessing and posts the image.
startUpscale(hasFile, hasModel) ==
    IF ~hasFile \/ ~hasModel
    THEN UNCHANGED vars
    ELSE /\ uPosting < MaxUpscales
         /\ uPosting' = uPosting + 1
         /\ isProcessing' = TRUE
         /\ UNCHANGED <<chanVars, busVars, compVars, batchVars, observe, counting,
                        trackVars, logVars>>

\* startUpscale() after the POST settles: a failure is toasted; isProcessing
\* is cleared either way (finally).
UpscaleSettle(ok) ==
    /\ uPosting > 0
    /\ uPosting' = uPosting - 1
    /\ toasts' = IF ok THEN toasts ELSE toast(toasts, "error")
    /\ isProcessing' = FALSE
    /\ UNCHANGED <<chanVars, modelDone, compVars, batchVars, observe, counting,
                   trackVars, logVars>>

\* ------------------------------------------- comparison (app.js, ComparisonView.js)

\* the user ticks or unticks model m in the compare list (bound to this.compareModels)
toggleModel(m) ==
    /\ compareModels' = IF m \in compareModels THEN compareModels \ {m}
                        ELSE compareModels \cup {m}
    /\ UNCHANGED <<chanVars, batchVars, restVars, busVars, isComparing, comparisonId, nComp, cPhase,
                   cSent, cExpected, cSeen, cTimers, cInflight, cDelays,
                   cOutcomes, cLast, cReported, cForwarded, cComplete, panels>>

\* the ids of a set of models as a list (ascending)
ModelList(S) == SelectSeq([i \in 1..MaxModels |-> i], LAMBDA m : m \in S)

\* startComparison() up to its first await: returns at once without a file or
\* without a model, else sets isComparing and posts the current model list.
startComparison(hasFile) ==
    IF ~hasFile \/ compareModels = {}
    THEN UNCHANGED vars
    ELSE /\ nComp < MaxComparisons
         /\ nComp' = nComp + 1
         /\ isComparing' = TRUE
         /\ cPhase' = [cPhase EXCEPT ![nComp + 1] = "posting"]
         /\ cSent' = [cSent EXCEPT ![nComp + 1] = compareModels]
         /\ UNCHANGED <<chanVars, batchVars, restVars, busVars, compareModels, comparisonId,
                        cExpected, cSeen, cTimers, cInflight, cDelays,
                        cOutcomes, cLast, cReported, cForwarded, cComplete, panels>>

\* the 'comparison-start' listener of comparisonView: one 'original' panel,
\* then one placeholder panel per model id
onComparisonStart(modelIds) ==
    <<[id |-> 0, label |-> "Original", url |-> "original", duration |-> FALSE]>>
    \o [k \in 1..Len(modelIds) |->
          [id |-> modelIds[k], label |-> "model", url |-> "none",
           duration |-> FALSE]]

\* pollComparison(comparisonId) up to its return: expectedCount is read from
\* this.compareModels now, the seen set is empty, the first poll is 2 s away.
pollComparison(c) ==
    /\ cExpected' = [cExpected EXCEPT ![c] = Cardinality(compareModels)]
    /\ cSeen' = [cSeen EXCEPT ![c] = {}]
    /\ cTimers' = [cTimers EXCEPT ![c] = Append(@, CompInitialDelay)]

\* startComparison() after the POST settles.  On success it stores the id,
\* dispatches 'comparison-start' with this.compareModels and starts the poll
\* loop; on a rejected or failed POST it toasts and clears isComparing.
PostResolve(c, ok) ==
    /\ cPhase[c] = "posting"
    /\ IF ok
       THEN /\ cPhase' = [cPhase EXCEPT ![c] = "polling"]
            /\ comparisonId' = c
            /\ panels' = onComparisonStart(ModelList(compareModels))
            /\ pollComparison(c)
            /\ UNCHANGED <<isComparing, toasts>>
       ELSE /\ cPhase' = [cPhase EXCEPT ![c] = "rejected"]
            /\ toasts' = toast(toasts, "error")
            /\ isComparing' = FALSE
            /\ UNCHANGED <<comparisonId, panels, cExpected, cSeen, cTimers>>
    /\ UNCHANGED <<chanVars, batchVars, restVars, modelDone, compareModels, nComp, cSent, cInflight,
                   cDelays, cOutcomes, cLast, cReported, cForwarded, cComplete>>

\* records h at the end of a history that keeps the first MaxHist entries
Record(hist, h) ==
    IF observe /\ Len(hist) < MaxHist THEN Append(hist, h) ELSE hist

\* the outcome of the latest fetch, when histories are recorded
Latest(old, h) == IF observe THEN h ELSE old

\* a pending setTimeout(poll, d) of loop c fires: poll() issues its fetch
CompPollFire(c) ==
    /\ \E i \in 1..Len(cTimers[c]) :
          /\ cTimers' = [cTimers EXCEPT ![c] = RemoveAt(@, i)]
          /\ cDelays' = [cDelays EXCEPT ![c] = Record(@, cTimers[c][i])]
    /\ cInflight' = [cInflight EXCEPT ![c] = @ + 1]
    /\ UNCHANGED <<chanVars, batchVars, restVars, busVars, compareModels, isComparing, comparisonId,
                   nComp, cPhase, cSent, cExpected, cSeen, cOutcomes, cLast,
                   cReported, cForwarded, cComplete, panels>>

\* the catch of poll() retrying at the steady interval
CompFetchFail_NoBackoff(c) ==
    /\ cInflight[c] > 0
    /\ cInflight' = [cInflight EXCEPT ![c] = @ - 1]
    /\ cTimers' = [cTimers EXCEPT ![c] = Append(@, CompSteadyDelay)]
    /\ cOutcomes' = [cOutcomes EXCEPT ![c] = Record(@, "fail")]
    /\ cLast' = [cLast EXCEPT ![c] = Latest(@, "fail")]
    /\ UNCHANGED <<chanVars, batchVars, restVars, busVars, compareModels,
                   isComparing, comparisonId, nComp, cPhase, cSent, cExpected,
                   cSeen, cDelays, cReported, cForwarded, cComplete, panels>>

\* the fetch or res.json() of poll() rejects: catch schedules the next poll
CompFetchFail(c) ==
    /\ cInflight[c] > 0
    /\ cInflight' = [cInflight EXCEPT ![c] = @ - 1]
    /\ cTimers' = [cTimers EXCEPT ![c] = Append(@, CompFailDelay)]
    /\ cOutcomes' = [cOutcomes EXCEPT ![c] = Record(@, "fail")]
    /\ cLast' = [cLast EXCEPT ![c] = Latest(@, "fail")]
    /\ UNCHANGED <<chanVars, batchVars, restVars, busVars, compareModels, isComparing, comparisonId,
                   nComp, cPhase, cSent, cExpected, cSeen, cDelays,
                   cReported, cForwarded, cComplete, panels>>

\* one entry of data.results, as far as the client reads it
Results(S) == [model_id : S, success : BOOLEAN, image : BOOLEAN]

\* the result lists a snapshot of a comparison over the models S can carry
Snapshots(S) == UNION {[1..n -> Results(S)] : n \in 0..MaxSnap}

\* the 'comparison-result' listener of comparisonView: the first panel with
\* the model's id gets its url and duration, or its label marked failed
onComparisonResult(pan, r) ==
    LET hits == {k \in 1..Len(pan) : pan[k].id = r.model_id} IN
    IF hits = {} THEN pan
    ELSE LET k == CHOOSE x \in hits : \A y \in hits : x <= y IN
         IF r.success /\ r.image
         THEN [pan EXCEPT ![k].url = "image", ![k].duration = TRUE]
         ELSE [pan EXCEPT ![k].label = "failed", ![k].duration = TRUE]

\* the for loop of poll(): a result whose model id is not in seen is added to
\* seen and dispatched as 'comparison-result'; any other result is skipped
RECURSIVE forwardResults(_, _, _, _)
forwardResults(results, seen, fwd, pan) ==
    IF results = <<>>
    THEN [seen |-> seen, fwd |-> fwd, panels |-> pan]
    ELSE LET r == Head(results) IN
         IF r.model_id \in seen
         THEN forwardResults(Tail(results), seen, fwd, pan)
         ELSE forwardResults(Tail(results), seen \cup {r.model_id},
                             [fwd EXCEPT ![r.model_id] = Sat(@)],
                             onComparisonResult(pan, r))

\* the completion test off by one: polls again while the seen set is no
\* larger than expectedCount
pollAgain_OffByOne(seenSize, expectedCount) == seenSize <= expectedCount

\* whether poll() polls again after a snapshot
pollAgain(seenSize, expectedCount) == seenSize < expectedCount

\* the fetch of poll() resolves with a snapshot: new results are forwarded,
\* then either the next poll is scheduled or the comparison is complete
CompFetchOk(c, results) ==
    /\ cInflight[c] > 0
    /\ cInflight' = [cInflight EXCEPT ![c] = @ - 1]
    /\ LET out == forwardResults(results, cSeen[c], cForwarded[c], panels) IN
       /\ cSeen' = [cSeen EXCEPT ![c] = out.seen]
       /\ cForwarded' = [cForwarded EXCEPT ![c] = out.fwd]
       /\ cReported' = [cReported EXCEPT ![c] =
                           @ \cup {results[k].model_id : k \in 1..Len(results)}]
       /\ panels' = out.panels
       /\ IF pollAgain(Cardinality(out.seen), cExpected[c])
          THEN /\ cTimers' = [cTimers EXCEPT ![c] = Append(@, CompSteadyDelay)]
               /\ cOutcomes' = [cOutcomes EXCEPT ![c] = Record(@, "more")]
               /\ cLast' = [cLast EXCEPT ![c] = Latest(@, "more")]
               /\ UNCHANGED <<isComparing, toasts, cComplete, cPhase>>
          ELSE /\ isComparing' = FALSE
               /\ toasts' = toast(toasts, "success")
               /\ cComplete' = [cComplete EXCEPT ![c] = Sat(@)]
               /\ cPhase' = [cPhase EXCEPT ![c] = "complete"]
               /\ cOutcomes' = [cOutcomes EXCEPT ![c] = Record(@, "complete")]
               /\ cLast' = [cLast EXCEPT ![c] = Latest(@, "complete")]
               /\ UNCHANGED cTimers
    /\ UNCHANGED <<chanVars, batchVars, restVars, modelDone, compareModels, comparisonId, nComp,
                   cSent, cExpected, cDelays>>

NextCompare ==
    \/ \E m \in ModelIds : toggleModel(m)
    \/ \E hasFile \in BOOLEAN : startComparison(hasFile)
    \/ \E c \in CompIds, ok \in BOOLEAN : PostResolve(c, ok)
    \/ \E c \in CompIds : CompPollFire(c)
    \/ \E c \in CompIds : CompFetchFail(c)
    \/ \E c \in CompIds : \E results \in Snapshots(cSent[c]) : CompFetchOk(c, results)

\* --------------------------------------------- batch panel (ProgressTracker.js)

\* startBatch() up to its first await: returns at once without an input
\* directory or a model (both typed by the user), else sets batchRunning,
\* clears batchStatus and posts the job.
startBatch(hasInputDir, hasModel) ==
    IF ~hasInputDir \/ ~hasModel
    THEN UNCHANGED vars
    ELSE /\ nJobs < MaxJobs
         /\ nJobs' = nJobs + 1
         /\ batchRunning' = TRUE
         /\ batchStatus' = [kind |-> "empty", text |-> ""]
         /\ jPhase' = [jPhase EXCEPT ![nJobs + 1] = "posting"]
         /\ UNCHANGED <<chanVars, busVars, compVars, restVars, batchJobId,
                        jTimers, jInflight, jDelays, jOutcomes, jLast, jTerminal, jReports>>

\* pollJob starting with the failure delay
pollJob_LateStart(j) == jTimers' = [jTimers EXCEPT ![j] = Append(@, JobFailDelay)]

\* pollJob(jobId) up to its return: the first poll is 1 s away
pollJob(j) == jTimers' = [jTimers EXCEPT ![j] = Append(@, JobInitialDelay)]

\* startBatch() after the POST settles: on success it stores the job id and
\* starts the poll loop, else it clears batchRunning and toasts the error.
BatchPostResolve(j, ok) ==
    /\ jPhase[j] = "posting"
    /\ IF ok
       THEN /\ jPhase' = [jPhase EXCEPT ![j] = "polling"]
            /\ batchJobId' = j
            /\ pollJob(j)
            /\ UNCHANGED <<batchRunning, toasts>>
       ELSE /\ jPhase' = [jPhase EXCEPT ![j] = "rejected"]
            /\ batchRunning' = FALSE
            /\ toasts' = toast(toasts, "error")
            /\ UNCHANGED <<batchJobId, jTimers>>
    /\ UNCHANGED <<chanVars, modelDone, compVars, restVars, batchStatus, nJobs,
                   jInflight, jDelays, jOutcomes, jLast, jTerminal, jReports>>

\* the poll timer as an interval: it stays pending after it fires
JobPollFire_Repeating(j) ==
    /\ \E i \in 1..Len(jTimers[j]) :
          jDelays' = [jDelays EXCEPT ![j] = Record(@, jTimers[j][i])]
    /\ jInflight[j] < 2
    /\ jInflight' = [jInflight EXCEPT ![j] = @ + 1]
    /\ UNCHANGED <<chanVars, busVars, compVars, restVars, batchRunning,
                   batchStatus, batchJobId, nJobs, jPhase, jTimers, jOutcomes,
                   jLast, jTerminal, jReports>>

\* a pending setTimeout(poll, d) of loop j fires: poll() issues its fetch
JobPollFire(j) ==
    /\ \E i \in 1..Len(jTimers[j]) :
          /\ jTimers' = [jTimers EXCEPT ![j] = RemoveAt(@, i)]
          /\ jDelays' = [jDelays EXCEPT ![j] = Record(@, jTimers[j][i])]
    /\ jInflight' = [jInflight EXCEPT ![j] = @ + 1]
    /\ UNCHANGED <<chanVars, busVars, compVars, restVars, batchRunning,
                   batchStatus, batchJobId, nJobs, jPhase, jOutcomes, jLast,
                   jTerminal, jReports>>

\* the fetch or res.json() of poll() rejects: catch schedules the next poll
JobFetchFail(j) ==
    /\ jInflight[j] > 0
    /\ jInflight' = [jInflight EXCEPT ![j] = @ - 1]
    /\ jTimers' = [jTimers EXCEPT ![j] = Append(@, JobFailDelay)]
    /\ jOutcomes' = [jOutcomes EXCEPT ![j] = Record(@, "fail")]
    /\ jLast' = [jLast EXCEPT ![j] = Latest(@, "fail")]
    /\ UNCHANGED <<chanVars, busVars, compVars, restVars, batchRunning,
                   batchStatus, batchJobId, nJobs, jPhase, jDelays, jTerminal, jReports>>

JobStatuses == {"pending", "running", "completed", "failed"}
ErrorTexts == {"", "out of memory"}

\* a job snapshot, as far as the client reads it: status, whether results[0]
\* is present, and the error text ("" when absent)
JobSnapshots == [status : JobStatuses, hasResult : BOOLEAN, error : ErrorTexts]

\* the batchStatus a terminal snapshot leaves
statusOf(data) ==
    IF data.status = "completed"
    THEN IF data.hasResult
         THEN [kind |-> "Complete: counts", text |-> ""]
         ELSE [kind |-> "Batch complete", text |-> ""]
    ELSE [kind |-> "Failed: ",
          text |-> IF data.error # "" THEN data.error ELSE "Unknown error"]

\* only completed ends the loop: the return of the failed branch is missing
terminal_CompletedOnly(data) == data.status = "completed"

\* whether a snapshot ends the poll loop (the two return statements of poll())
terminal(data) == data.status \in {"completed", "failed"}

\* the fetch of poll() resolves with a snapshot: completed and failed are
\* reported and end the loop, any other status schedules the next poll
JobFetchOk(j, data) ==
    /\ jInflight[j] > 0
    /\ jInflight' = [jInflight EXCEPT ![j] = @ - 1]
    /\ jTerminal' = [jTerminal EXCEPT ![j] =
                        @ \/ data.status \in {"completed", "failed"}]
    /\ IF terminal(data)
       THEN /\ batchRunning' = FALSE
            /\ batchStatus' = statusOf(data)
            /\ toasts' = IF data.status = "completed"
                         THEN toast(toasts, "success") ELSE toasts
            /\ jReports' = [jReports EXCEPT ![j] = Sat(@)]
            /\ jPhase' = [jPhase EXCEPT ![j] = "reported"]
            /\ jOutcomes' = [jOutcomes EXCEPT ![j] = Record(@, "terminal")]
            /\ jLast' = [jLast EXCEPT ![j] = Latest(@, "terminal")]
            /\ UNCHANGED jTimers
       ELSE /\ jTimers' = [jTimers EXCEPT ![j] = Append(@, JobSteadyDelay)]
            /\ jOutcomes' = [jOutcomes EXCEPT ![j] = Record(@, "more")]
            /\ jLast' = [jLast EXCEPT ![j] = Latest(@, "more")]
            /\ UNCHANGED <<batchRunning, batchStatus, toasts, jReports, jPhase>>
    /\ UNCHANGED <<chanVars, modelDone, compVars, restVars, batchJobId, nJobs,
                   jDelays>>

NextBatch ==
    \/ \E d \in BOOLEAN, m \in BOOLEAN : startBatch(d, m)
    \/ \E j \in JobIds, ok \in BOOLEAN : BatchPostResolve(j, ok)
    \/ \E j \in JobIds : JobPollFire(j)
    \/ \E j \in JobIds : JobFetchFail(j)
    \/ \E j \in JobIds, data \in JobSnapshots : JobFetchOk(j, data)

\* one comparison and one batch job, started at most once each
NextLoops ==
    \/ \E m \in ModelIds : toggleModel(m)
    \/ \E hasFile \in BOOLEAN : nComp = 0 /\ startComparison(hasFile)
    \/ \E c \in CompIds, ok \in BOOLEAN : PostResolve(c, ok)
    \/ \E c \in CompIds : CompPollFire(c)
    \/ \E c \in CompIds : CompFetchFail(c)
    \/ \E c \in CompIds : \E results \in Snapshots(cSent[c]) : CompFetchOk(c, results)
    \/ \E d \in BOOLEAN, m \in BOOLEAN : nJobs = 0 /\ startBatch(d, m)
    \/ \E j \in JobIds, ok \in BOOLEAN : BatchPostResolve(j, ok)
    \/ \E j \in JobIds : JobPollFire(j)
    \/ \E j \in JobIds : JobFetchFail(j)
    \/ \E j \in JobIds, data \in JobSnapshots : JobFetchOk(j, data)

NextChannel ==
    \/ AppInit
    \/ ReconnectFire
    \/ \E s \in SockIds : SocketOpen(s)
    \/ \E i \in SockIds : PingTick(i)
    \/ \E s \in SockIds : SocketError(s)
    \/ \E s \in SockIds : SocketClose(s)
    \/ \E s \in SockIds : OnMessage(s)
    \/ Teardown

InitLog ==
    /\ arrived = <<>>
    /\ published = <<>>
    /\ dispatched = <<>>
    /\ malformed = FALSE

InitUpscale ==
    /\ isProcessing = FALSE
    /\ uPosting = 0

InitProgram ==
    /\ InitChannel /\ InitBus /\ InitCompare /\ InitBatch
    /\ InitTracker /\ InitLog /\ InitUpscale

Init == InitProgram /\ observe = FALSE /\ counting = TRUE

\* the same initial state, with the fetch histories of the loops recorded
InitObserved == InitProgram /\ observe = TRUE /\ counting = TRUE

\* the same initial state, with the dispatches of handleWSEvent left uncounted
InitUncounted == InitProgram /\ observe = FALSE /\ counting = FALSE

SpecChannel == Init /\ [][NextChannel]_vars

NextChannelApi ==
    \/ NextChannel
    \/ connectWebSocketCall

SpecChannelApi == Init /\ [][NextChannelApi]_vars

SpecCompare == Init /\ [][NextCompare]_vars

SpecBatch == Init /\ [][NextBatch]_vars

\* one comparison and one batch job
SpecPoll == Init /\ [][NextLoops]_vars

\* one comparison and one batch job; the compare list is left alone once the
\* comparison has been submitted
NextObserved ==
    \/ \E m \in ModelIds : nComp = 0 /\ toggleModel(m)
    \/ \E hasFile \in BOOLEAN : nComp = 0 /\ startComparison(hasFile)
    \/ \E c \in CompIds, ok \in BOOLEAN : PostResolve(c, ok)
    \/ \E c \in CompIds : CompPollFire(c)
    \/ \E c \in CompIds : CompFetchFail(c)
    \/ \E c \in CompIds : \E results \in Snapshots(cSent[c]) : CompFetchOk(c, results)
    \/ \E d \in BOOLEAN, m \in BOOLEAN : nJobs = 0 /\ startBatch(d, m)
    \/ \E j \in JobIds, ok \in BOOLEAN : BatchPostResolve(j, ok)
    \/ \E j \in JobIds : JobPollFire(j)
    \/ \E j \in JobIds : JobFetchFail(j)
    \/ \E j \in JobIds, data \in JobSnapshots : JobFetchOk(j, data)

\* the fetch histories of the two loops are recorded
SpecPollObserved == InitObserved /\ [][NextObserved]_vars

\* a snapshot that reports every model the comparison was sent with
CompFetchAll(c) ==
    \E results \in Snapshots(cSent[c]) :
        /\ {results[k].model_id : k \in 1..Len(results)} = cSent[c]
        /\ CompFetchOk(c, results)

\* a snapshot with a terminal status
JobFetchTerminal(j) ==
    \E data \in JobSnapshots : terminal(data) /\ JobFetchOk(j, data)

\* Timers fire, and a loop that keeps fetching eventually gets the snapshot
\* in which the server reports the job finished.
FairPoll ==
    /\ \A c \in CompIds : WF_vars(CompPollFire(c)) /\ SF_vars(CompFetchAll(c))
    /\ \A j \in JobIds : WF_vars(JobPollFire(j)) /\ SF_vars(JobFetchTerminal(j))

SpecPollFair == SpecPoll /\ FairPoll

\* one comparison, polled while frames arrive on an open socket
NextDedup ==
    \/ AppInit
    \/ \E s \in SockIds : SocketOpen(s)
    \/ \E s \in SockIds : OnMessage(s)
    \/ \E m \in ModelIds : toggleModel(m)
    \/ \E hasFile \in BOOLEAN : nComp = 0 /\ startComparison(hasFile)
    \/ \E c \in CompIds, ok \in BOOLEAN : PostResolve(c, ok)
    \/ \E c \in CompIds : CompPollFire(c)
    \/ \E c \in CompIds : CompFetchFail(c)
    \/ \E c \in CompIds : \E results \in Snapshots(cSent[c]) : CompFetchOk(c, results)

SpecDedup == Init /\ [][NextDedup]_vars

\* ---------------------------------------------------------------- dedup

\* C1: when a model id has been reported both by a successful
\* comparison_model_done frame and by a poll snapshot, in either order, exactly
\* one completion notification for that id (a 'comparison-model-done' or a
\* 'comparison-result' event) has been dispatched.
C1_OneNotificationPerId ==
    \A c \in CompIds : \A m \in ModelIds :
        (m \in cReported[c] /\ modelDone[m] >= 1) =>
            cForwarded[c][m] + modelDone[m] = 1

Size(S) == Cardinality(S)

\* C2: in a comparison with expectedCount sub-units, the forwarded results are
\* exactly the distinct ids reported so far, one each; the comparison is marked
\* complete at most once, by the first snapshot that brings the seen set to
\* expectedCount, which clears isComparing and toasts; nothing is scheduled or
\* in flight afterwards.
C2_State ==
    \A c \in CompIds :
        /\ \A m \in ModelIds :
              cForwarded[c][m] = IF m \in cReported[c] THEN 1 ELSE 0
        /\ cComplete[c] <= 1
        /\ cComplete[c] = 1 =>
              /\ cTimers[c] = <<>> /\ cInflight[c] = 0
              /\ Size(cSeen[c]) >= cExpected[c]
              /\ cExpected[c] = Size(cSent[c]) => Size(cSeen[c]) = cExpected[c]
        /\ (cPhase[c] = "polling" /\ Size(cSeen[c]) >= cExpected[c]) =>
              (cExpected[c] = 0 /\ cReported[c] = {})

C2_Step ==
    \A c \in CompIds :
        cComplete'[c] # cComplete[c] =>
            /\ cComplete[c] = 0
            /\ Size(cSeen[c]) < cExpected[c] \/ cExpected[c] = 0
            /\ isComparing' = FALSE
            /\ toasts'["success"] = Sat(toasts["success"])

C2_CompleteOnce == [][C2_Step]_vars /\ []C2_State

\* a comparison of two models whose results came in two snapshots, the second
\* repeating the first id, is complete
C2_Witness ==
    \E c \in CompIds :
        /\ cComplete[c] = 1 /\ cExpected[c] = 2 /\ cSent[c] = {1, 2}
        /\ cSeen[c] = {1, 2} /\ cReported[c] = {1, 2}

\* ------------------------------------------------------------- poll loops

\* C3: every started job (batch job or comparison) eventually has its final
\* state reported, and reported once.
C3_Reported ==
    /\ \A c \in CompIds : (cPhase[c] = "polling") ~> (cComplete[c] = 1)
    /\ \A j \in JobIds : (jPhase[j] = "polling") ~> (jReports[j] = 1)
    /\ [](\A c \in CompIds : cComplete[c] <= 1)
    /\ [](\A j \in JobIds : jReports[j] <= 1)

\* C7: a poll loop never has two fetches in flight, two timers pending, or a
\* timer pending while its fetch is in flight.
C7_OneOutstanding ==
    /\ \A c \in CompIds : Len(cTimers[c]) + cInflight[c] <= 1
    /\ \A j \in JobIds : Len(jTimers[j]) + jInflight[j] <= 1

\* both loops are running, one waiting for its timer, one for its fetch
C7_Witness ==
    /\ \E c \in CompIds : Len(cTimers[c]) = 1 /\ cInflight[c] = 0
                            /\ cReported[c] # {}
    /\ \E j \in JobIds : jTimers[j] = <<>> /\ jInflight[j] = 1

\* C8: once a snapshot of a job has reported completed or failed, the loop is
\* over: it has reported once, no timer is pending and no fetch is in flight.
C8_TerminalStops ==
    \A j \in JobIds :
        jTerminal[j] =>
            (jReports[j] = 1 /\ jTimers[j] = <<>> /\ jInflight[j] = 0)

C8_Witness ==
    \E j \in JobIds : jTerminal[j] /\ batchStatus.kind = "Failed: "

\* the delays of the pending timers of a loop
Pending(timers) == {timers[k] : k \in 1..Len(timers)}

\* C9: after a failed fetch the loop is still alive (its next timer is
\* pending or has fired) and that timer's delay is strictly longer than the
\* delay the loop uses after a successful, non-final fetch.
C9_BackoffOnFailure ==
    /\ \A c \in CompIds :
          /\ cLast[c] = "fail" =>
                /\ Len(cTimers[c]) + cInflight[c] = 1
                /\ \A d \in Pending(cTimers[c]) : d > CompSteadyDelay
          /\ cLast[c] = "more" =>
                /\ Len(cTimers[c]) + cInflight[c] = 1
                /\ \A d \in Pending(cTimers[c]) : d = CompSteadyDelay
    /\ \A j \in JobIds :
          /\ jLast[j] = "fail" =>
                /\ Len(jTimers[j]) + jInflight[j] = 1
                /\ \A d \in Pending(jTimers[j]) : d > JobSteadyDelay
          /\ jLast[j] = "more" =>
                /\ Len(jTimers[j]) + jInflight[j] = 1
                /\ \A d \in Pending(jTimers[j]) : d = JobSteadyDelay

\* both loops have failed three times in a row and wait for the next retry
C9_Witness ==
    /\ \E c \in CompIds : cOutcomes[c] = <<"fail", "fail", "fail">>
                            /\ cTimers[c] = <<CompFailDelay>>
    /\ \E j \in JobIds : jOutcomes[j] = <<"fail", "fail", "fail">>
                           /\ jTimers[j] = <<JobFailDelay>>

\* a loop whose fetches failed twice and then returned the final snapshot
CompFailFailDone(c) == cOutcomes[c] = <<"fail", "fail", "complete">>
JobFailFailDone(j) == jOutcomes[j] = <<"fail", "fail", "terminal">>

\* C10: a loop whose fetch fails twice and then returns a terminal result has
\* issued exactly 3 fetches and has stopped, and its second fetch was
\* scheduled with a strictly longer delay than its first.
C10_ThreeFetches ==
    /\ \A c \in CompIds :
          CompFailFailDone(c) =>
              /\ Len(cDelays[c]) = 3 /\ cTimers[c] = <<>> /\ cInflight[c] = 0
              /\ cDelays[c][2] > cDelays[c][1]
    /\ \A j \in JobIds :
          JobFailFailDone(j) =>
              /\ Len(jDelays[j]) = 3 /\ jTimers[j] = <<>> /\ jInflight[j] = 0
              /\ jDelays[j][2] > jDelays[j][1]

\* C10 as amended: exactly 3 fetches and then a stop; the second fetch is
\* scheduled with the loop's failure delay, which is longer than the loop's
\* steady delay, and is longer than the first delay in pollJob (3 s after 1 s)
\* but equal to it in pollComparison (2 s after 2 s).
C10_ThreeFetchesAmended ==
    /\ \A c \in CompIds :
          CompFailFailDone(c) =>
              /\ Len(cDelays[c]) = 3 /\ cTimers[c] = <<>> /\ cInflight[c] = 0
              /\ cDelays[c][2] = cDelays[c][1]
              /\ cDelays[c][2] > CompSteadyDelay
    /\ \A j \in JobIds :
          JobFailFailDone(j) =>
              /\ Len(jDelays[j]) = 3 /\ jTimers[j] = <<>> /\ jInflight[j] = 0
              /\ jDelays[j][2] > jDelays[j][1]
              /\ jDelays[j][2] > JobSteadyDelay

C10_Witness ==
    /\ \E c \in CompIds : CompFailFailDone(c)
    /\ \E j \in JobIds : JobFailFailDone(j)

\* ------------------------------------------------------------ push channel

\* C4: at most one physical connection is live (connecting or connected) in
\* every reachable state, also when connectWebSocket() is called while the
\* channel is already Connecting or Connected (the call must be a no-op).
C4_OneLiveConnection == Cardinality(LiveSockets) <= 1

\* C5: every close of a socket cancels the keepalive interval and schedules
\* exactly one reconnect, 3 seconds later, without itself opening a
\* connection; there are never two pending reconnect timers, and never more
\* connection attempts than the first one plus one per closed socket.
C5_CloseStep ==
    \A s \in SockIds :
        (sock[s] # "CLOSED" /\ sock'[s] = "CLOSED") =>
            /\ activeIntervals' = {}
            /\ Len(reconnectTimers') = Len(reconnectTimers) + 1
            /\ reconnectTimers' = <<ReconnectDelay>>
            /\ nSock' = nSock

C5_OneReconnect ==
    /\ Len(reconnectTimers) <= 1
    /\ nSock <= 1 + Cardinality({s \in SockIds : sock[s] = "CLOSED"})
    /\ Len(reconnectTimers) + Cardinality(LiveSockets) <= 1

C5_ReconnectAfterClose == [][C5_CloseStep]_vars /\ []C5_OneReconnect

\* a socket that had opened (keepalive started) was closed after an error, its
\* keepalive is gone and its one reconnect is pending
C5_Witness ==
    \E s \in SockIds :
        /\ sock[s] = "CLOSED" /\ pingInterval = s /\ wsReconnectTimer = s
        /\ activeIntervals = {}
        /\ reconnectTimers = <<ReconnectDelay>>

\* C6: after teardown no reconnect timer and no keepalive interval is pending.
C6_TimersClearedAfterTeardown ==
    tornDown => (reconnectTimers = <<>> /\ activeIntervals = {})

\* --------------------------------------------------------- failing polls

\* a fetch of loop j settles, one way or the other
JobFetchSettles(j) ==
    JobFetchFail(j) \/ \E data \in JobSnapshots : JobFetchOk(j, data)

\* a fetch of loop c settles, one way or the other
CompFetchSettles(c) ==
    CompFetchFail(c) \/ \E results \in Snapshots(cSent[c]) : CompFetchOk(c, results)

\* Timers fire and fetches settle; nothing is assumed about how they settle,
\* so the server may be unreachable for ever.
FairRetry ==
    /\ \A c \in CompIds : WF_vars(CompPollFire(c)) /\ WF_vars(CompFetchSettles(c))
    /\ \A j \in JobIds : WF_vars(JobPollFire(j)) /\ WF_vars(JobFetchSettles(j))

SpecPollRetry == SpecPollObserved /\ FairRetry

\* C11: a poll loop whose fetches keep failing does not retry for ever: from
\* some point on its latest fetch is no failure, or the loop has stopped with
\* the job marked failed (batchStatus 'Failed: ...', batchRunning false; for a
\* comparison, isComparing false).
C11_FailuresAbort ==
    /\ \A j \in JobIds :
          <>[](jLast[j] = "fail") =>
              <>(/\ jTimers[j] = <<>> /\ jInflight[j] = 0
                 /\ batchStatus.kind = "Failed: " /\ ~batchRunning)
    /\ \A c \in CompIds :
          <>[](cLast[c] = "fail") =>
              <>(cTimers[c] = <<>> /\ cInflight[c] = 0 /\ ~isComparing)

\* ----------------------------------------------------------- cancellation

\* One comparison and one batch job on a page that can be removed.  The user
\* acts only while the page is there; timers and fetches outlive it, because
\* neither loop keeps the handle of its setTimeout and no component of the
\* page has code that runs on removal of the loops' owners.
NextCancel ==
    \/ AppInit
    \/ Teardown
    \/ \E m \in ModelIds : ~tornDown /\ toggleModel(m)
    \/ \E hasFile \in BOOLEAN : ~tornDown /\ nComp = 0 /\ startComparison(hasFile)
    \/ \E c \in CompIds, ok \in BOOLEAN : PostResolve(c, ok)
    \/ \E c \in CompIds : CompPollFire(c)
    \/ \E c \in CompIds : CompFetchFail(c)
    \/ \E c \in CompIds : \E results \in Snapshots(cSent[c]) : CompFetchOk(c, results)
    \/ \E d \in BOOLEAN, m \in BOOLEAN : ~tornDown /\ nJobs = 0 /\ startBatch(d, m)
    \/ \E j \in JobIds, ok \in BOOLEAN : BatchPostResolve(j, ok)
    \/ \E j \in JobIds : JobPollFire(j)
    \/ \E j \in JobIds : JobFetchFail(j)
    \/ \E j \in JobIds, data \in JobSnapshots : JobFetchOk(j, data)

SpecCancel == Init /\ [][NextCancel]_vars

\* C12: once the owner of the loops is gone, no poll callback and no fetch
\* result of a loop changes batchRunning, batchStatus, isComparing or the
\* panels, and no further fetch is issued or scheduled.
C12_Step ==
    (/\ tornDown
     /\ \A c \in CompIds : cPhase[c] # "posting"
     /\ \A j \in JobIds : jPhase[j] # "posting") =>
        /\ UNCHANGED <<batchRunning, batchStatus, isComparing, panels>>
        /\ \A c \in CompIds : /\ cInflight'[c] <= cInflight[c]
                              /\ Len(cTimers'[c]) <= Len(cTimers[c])
        /\ \A j \in JobIds : /\ jInflight'[j] <= jInflight[j]
                             /\ Len(jTimers'[j]) <= Len(jTimers[j])

C12_NothingAfterCancel == [][C12_Step]_vars

\* --------------------------------------------------------- progress state

\* a page whose progress tracker comes and goes while frames arrive on the
\* socket that init() opened
NextTracker ==
    \/ AppInit
    \/ \E s \in SockIds : SocketOpen(s)
    \/ \E s \in SockIds : OnMessage(s)
    \/ TrackerInit
    \/ TrackerDestroy
    \/ ClockAdvance

SpecTracker == InitUncounted /\ [][NextTracker]_vars

\* the tracker has handled a frame in this step, and it was of the given type
Handled(type) ==
    /\ trackerMounted /\ trackerMounted'
    /\ lastEvent'.type = type
    /\ <<lastEvent, progressPercent, progressLabel, startTime>>'
          # <<lastEvent, progressPercent, progressLabel, startTime>>

\* C13: the progress state of a job never leaves completed: once the tracker
\* shows percent 100 and 'Complete!', no later frame moves it back to an
\* in-progress state.
C13_Step ==
    (/\ trackerMounted /\ trackerMounted'
     /\ progressLabel.kind = "Complete!" /\ progressPercent = 100) =>
        (progressLabel'.kind = "Complete!" /\ progressPercent' = 100)

C13_TerminalStays == [][C13_Step]_vars

\* the total of the latest tile_progress frame, as the tracker reads it
TilesTotal == OrElse(lastEvent.tiles_total, 1)

\* after a tile_progress frame with total T >= 1, percent is round(done/T*100)
C14_PercentOfTiles ==
    (lastEvent.type = "tile_progress" /\ lastEvent.tiles_total >= 1) =>
        /\ progressPercent = Round(100 * lastEvent.tiles_done, lastEvent.tiles_total)
        /\ progressLabel.x = lastEvent.tiles_done
        /\ progressLabel.y = lastEvent.tiles_total

\* two tile_progress frames with the same total T >= 1, one after the other
TileAfterTile ==
    /\ Handled("tile_progress")
    /\ lastEvent.type = "tile_progress"
    /\ lastEvent'.tiles_total = lastEvent.tiles_total
    /\ lastEvent.tiles_total >= 1

\* C14: along every sequence of tile_progress frames with total = T, percent
\* equals round(done/T*100) after each frame and never decreases.
C14_PercentMonotone ==
    /\ []C14_PercentOfTiles
    /\ [][TileAfterTile => progressPercent' >= progressPercent]_vars

\* C14 as amended: percent equals round(done/T*100) after each frame with
\* total T >= 1 (a total of 0 or none counts as 1), and does not decrease from
\* one frame to the next when done does not decrease; a frame with a smaller
\* done lowers it.
C14_PercentMonotoneAmended ==
    /\ []C14_PercentOfTiles
    /\ [](lastEvent.type = "tile_progress" /\ lastEvent.tiles_total = 0 =>
             progressPercent = 100 * lastEvent.tiles_done)
    /\ [][(TileAfterTile /\ lastEvent'.tiles_done >= lastEvent.tiles_done) =>
             progressPercent' >= progressPercent]_vars
    /\ [][(TileAfterTile /\ lastEvent'.tiles_done < lastEvent.tiles_done) =>
             progressPercent' <= progressPercent]_vars

\* 2 tiles of 3 are done: 67 percent
C14_Witness ==
    /\ trackerMounted
    /\ lastEvent.type = "tile_progress"
    /\ lastEvent.tiles_done = 2 /\ lastEvent.tiles_total = 3
    /\ progressPercent = 67

\* C15: progressPercent is within 0..100 in every reachable state.
C15_PercentInRange == progressPercent \in 0..100

\* elapsed ms between the tracker's startTime and its latest frame
ElapsedAtEvent == lastEvent.at - startTime

\* C16: after a tile_progress frame the label has no ETA when at most 2 s have
\* elapsed since startTime or done = 0; when more than 2 s have elapsed and
\* 0 < done < total, it has one, positive and equal to
\* ceil((total - done) * elapsed / done).
C16_Eta ==
    lastEvent.type = "tile_progress" =>
        /\ (ElapsedAtEvent <= 2000 \/ lastEvent.tiles_done = 0) =>
              progressLabel.eta = <<>>
        /\ (ElapsedAtEvent > 2000 /\ 0 < lastEvent.tiles_done
               /\ lastEvent.tiles_done < TilesTotal) =>
              /\ progressLabel.eta =
                    <<Ceil((TilesTotal - lastEvent.tiles_done) * ElapsedAtEvent,
                           lastEvent.tiles_done * 1000)>>
              /\ progressLabel.eta[1] > 0

\* C16 as amended: the ETA, when present, is the double-precision quotient
\* (total - done) / (done / elapsed) rounded up, which is
\* ceil((total - done) * elapsed / done) or, where rounding error lifts a
\* whole quotient, one more.
C16_EtaAmended ==
    lastEvent.type = "tile_progress" =>
        /\ (ElapsedAtEvent <= 2000 \/ lastEvent.tiles_done = 0) =>
              progressLabel.eta = <<>>
        /\ (ElapsedAtEvent > 2000 /\ 0 < lastEvent.tiles_done
               /\ lastEvent.tiles_done < TilesTotal) =>
              LET exact == Ceil((TilesTotal - lastEvent.tiles_done) * ElapsedAtEvent,
                                lastEvent.tiles_done * 1000)
              IN  /\ Len(progressLabel.eta) = 1
                  /\ progressLabel.eta[1] \in {exact, exact + 1}
                  /\ progressLabel.eta[1] > 0
                  /\ progressLabel.eta[1] = exact + 1 =>
                        <<lastEvent.tiles_done, TilesTotal, ElapsedAtEvent>>
                            \in RoundedAbove

\* 47 s after the tracker was mounted 2 tiles of 3 are done: 24 s remain
C16_Witness ==
    /\ lastReset.by = "init"
    /\ lastEvent.type = "tile_progress"
    /\ lastEvent.tiles_done = 2 /\ lastEvent.tiles_total = 3
    /\ ElapsedAtEvent = 47000
    /\ progressLabel.eta = <<24>>

\* C17: a model_loading frame leaves percent 0, the label 'Loading model: <id>...'
\* and startTime at the time of the frame; the ETA of a later tile_progress
\* frame counts only the time since that frame, and is absent in its first 2 s.
C17_LoadingResets ==
    /\ lastEvent.type = "model_loading" =>
          /\ progressPercent = 0
          /\ progressLabel = [Label("Loading model") EXCEPT !.model = lastEvent.model]
          /\ lastEvent.model \in ModelIds
          /\ startTime = lastEvent.at
    /\ (lastEvent.type = "tile_progress" /\ lastReset.by = "model_loading") =>
          LET sinceLoading == lastEvent.at - lastReset.at IN
          /\ sinceLoading <= 2000 => progressLabel.eta = <<>>
          /\ (sinceLoading > 2000 /\ lastEvent.tiles_done > 0) =>
                progressLabel.eta =
                    <<Remaining(lastEvent.tiles_done, TilesTotal, sinceLoading)>>

\* a model began loading 2 s after the tracker was mounted; 47 s later 1 tile
\* of 2 is done and 47 s remain (49 s after mounting would give 50)
C17_Witness ==
    /\ lastReset = [by |-> "model_loading", at |-> 2000]
    /\ lastEvent.type = "tile_progress" /\ lastEvent.at = 49000
    /\ lastEvent.tiles_done = 1 /\ lastEvent.tiles_total = 2
    /\ progressLabel.eta = <<47>>

\* C20 (the image_error half): an image_error frame moves the progress state
\* of the job: the tracker's percent or label is not what it was before.
C20_Step ==
    (Handled("image_error") /\ lastEvent.type # "image_error") =>
        <<progressPercent, progressLabel>>' # <<progressPercent, progressLabel>>

C20_ErrorMarksFailed == [][C20_Step]_vars

\* ------------------------------------------------------------ frame order

\* the same initial state, with the frames and their dispatches logged
InitLogged == InitProgram /\ observe = TRUE /\ counting = FALSE

\* frames arrive on the sockets of a channel that fails and reconnects
NextBus ==
    \/ AppInit
    \/ ReconnectFire
    \/ \E s \in SockIds : SocketOpen(s)
    \/ \E s \in SockIds : SocketError(s)
    \/ \E s \in SockIds : SocketClose(s)
    \/ \E s \in SockIds : OnMessage(s)

SpecBus == InitLogged /\ [][NextBus]_vars

\* the dispatches that frame n caused
DispatchesOf(n) == SelectSeq(dispatched, LAMBDA e : e[1] = n)

\* C18: the 'ws-event' dispatches are the well-formed frames received, each
\* once, unchanged and in arrival order; every dispatch a frame causes comes
\* before every dispatch of the next frame, the 'ws-event' first.
C18_InArrivalOrder ==
    /\ published = arrived
    /\ \A k \in 1..(Len(dispatched) - 1) : dispatched[k][1] <= dispatched[k + 1][1]
    /\ \A n \in 1..Len(arrived) :
          /\ DispatchesOf(n) # <<>>
          /\ DispatchesOf(n)[1][2] = "ws-event"
          /\ \A k \in 2..Len(DispatchesOf(n)) : DispatchesOf(n)[k][2] # "ws-event"

\* a malformed frame was dropped; a successful comparison_model_done frame and
\* then an image_error frame were published, each followed by its own dispatch
C18_Witness ==
    /\ malformed
    /\ Len(arrived) = 2
    /\ arrived[1].data.type = "comparison_model_done" /\ arrived[1].data.success
    /\ arrived[2].data.type = "image_error"
    /\ dispatched = <<<<1, "ws-event">>, <<1, "comparison-model-done">>,
                      <<2, "ws-event">>, <<2, "toast">>>>

\* --------------------------------------------------------- channel outage

\* An upscale, a batch job and a comparison are started, and a mounted tracker
\* gets one frame, while the socket that init() opened fails or is closed.
NextOutage ==
    \/ AppInit
    \/ \E s \in SockIds : SocketOpen(s)
    \/ \E s \in SockIds : SocketError(s)
    \/ \E s \in SockIds : SocketClose(s)
    \/ TrackerInit
    \/ \E s \in SockIds : lastEvent.type = "none" /\ OnMessage(s)
    \/ \E f \in BOOLEAN, m \in BOOLEAN : startUpscale(f, m)
    \/ \E ok \in BOOLEAN : UpscaleSettle(ok)
    \/ \E m \in ModelIds : nComp = 0 /\ toggleModel(m)
    \/ \E hasFile \in BOOLEAN : nComp = 0 /\ startComparison(hasFile)
    \/ \E c \in CompIds, ok \in BOOLEAN : PostResolve(c, ok)
    \/ \E d \in BOOLEAN, m \in BOOLEAN : nJobs = 0 /\ startBatch(d, m)
    \/ \E j \in JobIds, ok \in BOOLEAN : BatchPostResolve(j, ok)
    \/ \E j \in JobIds : JobPollFire(j)
    \/ \E j \in JobIds : JobFetchFail(j)
    \/ \E j \in JobIds, data \in JobSnapshots : JobFetchOk(j, data)

SpecOutage == InitUncounted /\ [][NextOutage]_vars

\* a socket enters CLOSING or CLOSED in this step: onerror or onclose ran
ChannelFails ==
    \E s \in SockIds : sock'[s] # sock[s] /\ sock'[s] \in {"CLOSING", "CLOSED"}

\* C19: the close and error handlers of the socket leave isProcessing,
\* isComparing, batchRunning, batchStatus, the progress percent and label and
\* the comparison panels as they are, and dispatch no toast.
C19_Step ==
    ChannelFails =>
        UNCHANGED <<isProcessing, isComparing, batchRunning, batchStatus,
                    progressPercent, progressLabel, panels, toasts>>

C19_OutageLeavesJobs == [][C19_Step]_vars

\* the socket has closed with an upscale, a comparison and a batch job under
\* way and the tracker half way: all of them still show as running
C19_Witness ==
    /\ \E s \in SockIds : sock[s] = "CLOSED"
    /\ reconnectTimers # <<>>
    /\ isProcessing /\ isComparing /\ batchRunning
    /\ progressPercent = 50 /\ progressLabel.kind = "Tiles"
    /\ Len(panels) = 3
    /\ toasts = [t \in ToastTypes |-> 0]

\* ------------------------------------------------------- comparison panels

\* a model panel that has left pending: it has its image, or is marked failed
Settled(p) == p.id # 0 /\ (p.url = "image" \/ p.label = "failed")

\* C21: while the panel set of a comparison stands (no later
\* 'comparison-start' has rebuilt it), a model panel that has gone from
\* pending to succeeded (url set) or failed (label marked) never changes again.
C21_Step ==
    comparisonId' = comparisonId =>
        /\ Len(panels') = Len(panels)
        /\ \A k \in 1..Len(panels) :
              Settled(panels[k]) => panels'[k] = panels[k]

C21_PanelSettlesOnce == [][C21_Step]_vars

\* ------------------------------------------------------------ reconnection

\* no socket is connecting or connected, and none is on its way to a close
\* event that would schedule the reconnect
Disconnected ==
    appInit /\ \A s \in SockIds : sock[s] \in {"NONE", "CLOSED"}

\* C22: once init() has run, whenever no socket is connecting or connected
\* (nor closing, its close event still to come) a reconnect timer is pending,
\* so the channel is never left without a next connection attempt.
C22_NeverStuck == Disconnected => reconnectTimers # <<>>

\* ---------------------------------------------------------------- keepalive

\* C23: after any sequence of open, close, error and reconnect events at most
\* one keepalive interval is running, and only for a socket whose close event
\* has not run yet (none while the channel is disconnected); a probe is sent
\* only in a step in which this.ws is a socket in the OPEN state.
C23_State ==
    /\ Cardinality(activeIntervals) <= 1
    /\ \A i \in activeIntervals : sock[i] \in {"OPEN", "CLOSING"}
    /\ (\A s \in SockIds : sock[s] \in {"NONE", "CONNECTING", "CLOSED"}) =>
           activeIntervals = {}

C23_Step ==
    pingsSent' # pingsSent => (ws # 0 /\ sock[ws] = "OPEN")

C23_Keepalive == []C23_State /\ [][C23_Step]_vars

\* the first socket was open and is closed; the socket of the reconnect
\* opened, got an error and is closing, its interval (the only one) still
\* running until its close event; probes were sent while a socket was open
C23_Witness ==
    /\ sock[1] = "CLOSED" /\ sock[2] = "CLOSING" /\ ws = 2
    /\ activeIntervals = {2} /\ pingInterval = 2
    /\ reconnectTimers = <<>>
    /\ pingsSent = MaxPings

\* ---------------------------------------------------- overlapping comparisons

\* some poll loop of a comparison has started and not reached completion
SomePolling(phase) == \E c \in CompIds : phase[c] = "polling"

\* C24: the step in which one poll loop marks its comparison complete leaves
\* isComparing true while another comparison, started later or earlier, is
\* still being polled (isComparing is true whenever some poll loop has not yet
\* reached overall-completion).
C24_Step ==
    (\E c \in CompIds : cComplete'[c] # cComplete[c]) =>
        (SomePolling(cPhase') => isComparing')

C24_BusyWhilePolled == [][C24_Step]_vars

\* The standing panel set was built by the 'comparison-start' of the
\* comparison whose id startComparison stored last (comparisonId is assigned
\* in the same task, just before the dispatch).
\* C25: a snapshot handled by the poll loop of a comparison other than the
\* one that built the standing panel set changes no panel: results arriving
\* for an earlier comparison never set the url, duration or label of the
\* panels of a later one.
C25_Step ==
    \A c \in CompIds :
        (cInflight'[c] < cInflight[c] /\ comparisonId # c) => panels' = panels

C25_OwnPanelsOnly == [][C25_Step]_vars

====
